---- MODULE Spec2Model ----
(***************************************************************************)
(* A model of autoEncodeService (src/src/encoder.py, src/src/helper/       *)
(* constants.py): the batch loop process_all_videos with its ledger of     *)
(* processed files, the audio and subtitle track selectors, and the        *)
(* assembly of the HandBrakeCLI command in encode_video.  The functions    *)
(* are those of src/src/encoder.py, called by a client any number of       *)
(* times (Spec).  main.py imports the encoder.py beside it, an earlier     *)
(* draft with another ledger format: that program is SpecMain.  The GUI    *)
(* of src/src/gui.py is SpecGui.                                           *)
(*                                                                         *)
(* Python strings are modelled as sequences of pieces.  A piece is one     *)
(* character, or a literal of the source that is never taken apart         *)
(* ("--audio", "Deutsch").  Concatenation is \o, ','.join is Join, and     *)
(* str(i) is ToStr (decimal digits, one piece per digit).  A character     *)
(* that a TLA+ string cannot hold is the piece spelling its Python escape  *)
(* ("\\x0b" is the one character VT).                                      *)
(***************************************************************************)
EXTENDS Integers, Sequences, FiniteSets, TLC

VARIABLES
    \* --- get_audio_indices, called on its own ---
    audio_tracks,       \* media_info.audio_tracks: the language of each track
    languages,          \* the preference list
    first_only,         \* the first_only argument
    audio_result,       \* the returned string
    \* --- get_subtitles, called on its own ---
    text_tracks,        \* media_info.text_tracks
    criteria,           \* the rule set (SUBTITLE_CRITERIA in the program)
    subtitle_result,    \* [exc, val] of the call
    fn_pc,              \* "ready" before such a single call, then "returned"
                        \* or "raised"
    \* --- encode_video, called on its own ---
    enc_input,          \* [file, media]: the file name and what pymediainfo
                        \* reports for it
    extended_command,   \* the list handed to subprocess.run
    exit_status,        \* how subprocess.run ended in the last encode_video
                        \* ("pending" while the encoder runs)
    \* --- the program: process_all_videos over the input folder ---
    entries,            \* the input folder: name -> "absent", "file", "dir"
    ledger,             \* the content of PROCESSED_FILES_PATH
    pc,                 \* "idle", "running" (between two rounds of the
                        \* loop), "encoding" (in subprocess.run), "done",
                        \* "aborted"
    already_processed,  \* the set read at the start of the run
    files,              \* os.listdir(INPUT_FOLDER) of the run
    pos,                \* how many entries of files the loop has taken
    runs,               \* how many runs have started
    \* --- history, for stating the properties ---
    invoked,            \* names subprocess.run was called for in this run
    recorded,           \* names appended to the ledger in this run
    prev_settled,       \* names the previous run left settled: skipped as
                        \* processed, or recorded under a name strip keeps
    added,              \* a file was added since the last run listed the
                        \* folder
    fresh,              \* this run follows another one with no file added
                        \* in between
    succeeded,          \* names whose encoder invocation ever exited zero
    \* --- the GUI (src/src/gui.py) ---
    running,            \* the global flag running
    status_dot,         \* the colour of the status dot
    workers,            \* the run_script threads: where each one stands
    stop_seen           \* history: the workers that were running when
                        \* stop_script was called

audio_vars == <<audio_tracks, languages, first_only, audio_result>>
subtitle_vars == <<text_tracks, criteria, subtitle_result>>
encode_vars == <<enc_input, extended_command>>
batch_vars == <<entries, pc, already_processed, files, pos, runs,
                invoked, recorded, prev_settled, added, fresh, succeeded>>
gui_vars == <<running, status_dot, workers, stop_seen>>
vars == <<audio_vars, subtitle_vars, fn_pc, encode_vars, exit_status, ledger,
          batch_vars, gui_vars>>

\* ------------------------------------------------------------------ bounds
MaxAudioTracks == 3     \* audio tracks of a file given to get_audio_indices
MaxLanguages == 2       \* length of a preference list
MaxTextTracks == 2      \* text tracks of a file given to get_subtitles
MaxCriteria == 2        \* rules of a generated rule set
MaxEncAudio == 2        \* audio tracks of a file given to encode_video
MaxEncText == 1         \* text tracks of a file given to encode_video
MaxRuns == 3            \* runs of process_all_videos
MaxWorkers == 3         \* run_script threads ever started

\* ----------------------------------------------------------------- strings
None == "None"         \* None where the program expects a string
NoNumber == -1          \* None where the program expects a number

Digits == <<"0", "1", "2", "3", "4", "5", "6", "7", "8", "9">>

\* str(n) for a natural number n.
RECURSIVE ToStr(_)
ToStr(n) == IF n < 10 THEN <<Digits[n + 1]>>
            ELSE ToStr(n \div 10) \o <<Digits[(n % 10) + 1]>>

\* sep.join(items), items a list of strings.
RECURSIVE Join(_, _)
Join(sep, items) ==
    IF items = <<>> THEN <<>>
    ELSE IF Len(items) = 1 THEN items[1]
    ELSE items[1] \o sep \o Join(sep, Tail(items))

\* All sequences over S of length at most n.
SeqsUpTo(S, n) == UNION {[1..k -> S] : k \in 0..n}

\* ------------------------------------------------------- get_audio_indices
\* ScanAudio without the break after the first match.
RECURSIVE ScanAudioNoBreak(_, _, _, _)
ScanAudioNoBreak(tracks, lang, first, i) ==
    IF i > Len(tracks) THEN <<>>
    ELSE IF tracks[i] = lang
         THEN <<ToStr(i)>> \o ScanAudioNoBreak(tracks, lang, first, i + 1)
         ELSE ScanAudioNoBreak(tracks, lang, first, i + 1)

\* The inner loop of get_audio_indices for one language: the indices appended
\* while scanning the tracks from position i on.
RECURSIVE ScanAudio(_, _, _, _)
ScanAudio(tracks, lang, first, i) ==
    IF i > Len(tracks) THEN <<>>
    ELSE IF tracks[i] = lang
         THEN IF first THEN <<ToStr(i)>>
              ELSE <<ToStr(i)>> \o ScanAudio(tracks, lang, first, i + 1)
         ELSE ScanAudio(tracks, lang, first, i + 1)

\* The outer loop: the list `indices` after the languages from position k on.
RECURSIVE AudioIndexList(_, _, _, _)
AudioIndexList(tracks, langs, first, k) ==
    IF k > Len(langs) THEN <<>>
    ELSE ScanAudio(tracks, langs[k], first, 1)
         \o AudioIndexList(tracks, langs, first, k + 1)

\* get_audio_indices(input_file, languages, first_only).  parse is the outcome
\* of pymediainfo.MediaInfo.parse: "ok", "FileNotFoundError" or "ValueError".
get_audio_indices(parse, tracks, langs, first) ==
    IF parse # "ok" THEN <<>>
    ELSE IF tracks = <<>> THEN <<>>
    ELSE Join(<<",">>, AudioIndexList(tracks, langs, first, 1))

\* ------------------------------------------------------------- get_subtitles
\* Proportions are exact fractions: a track's proportion_of_this_stream is
\* p / PropDen, and a criterion's limit is limit / LimitDen (0.1 is 1/10).
PropDen == 100000
LimitDen == 10
ProportionScale == 1000

\* One entry of SUBTITLE_CRITERIA.  Every condition of the program has the
\* shape  language == L and proportion < limit.
Criterion(name, priority, lang, limit, default) ==
    [name |-> name, priority |-> priority, language |-> lang,
     limit |-> limit, default |-> default]

SUBTITLE_CRITERIA ==
    << Criterion("Fremdsprache", 1, "de", 1, "Yes"),
       Criterion("Deutsch", 2, "de", 10, "No"),
       Criterion("English", 3, "en", 10, "No") >>

\* criterion["condition"](subtitle_info); info.proportion is the numerator of
\* the scaled proportion over PropDen.
Condition(c, info) ==
    /\ info.language = c.language
    /\ info.proportion * LimitDen < c.limit * PropDen

\* SubtitleInfo with the proportion left unscaled.
SubtitleInfoUnscaled(track) ==
    [track_nr |-> track.stream_identifier + 1,
     language |-> track.language,
     stream_size |-> track.stream_size,
     proportion |-> track.proportion_of_this_stream,
     default |-> track.default]

\* subtitle_info as built from one track, before any criterion is applied.
SubtitleInfo(track) ==
    [track_nr |-> track.stream_identifier + 1,
     language |-> track.language,
     stream_size |-> track.stream_size,
     proportion |-> track.proportion_of_this_stream * ProportionScale,
     default |-> track.default]

\* int(track.stream_identifier) or float(track.proportion_of_this_stream)
\* raises TypeError on None.
TrackRaises(track) ==
    \/ track.stream_identifier = NoNumber
    \/ track.proportion_of_this_stream = NoNumber

\* FirstCriterion without the test of criteria_status.
RECURSIVE FirstCriterionRefiring(_, _, _, _)
FirstCriterionRefiring(crit, info, fired, k) ==
    IF k > Len(crit) THEN 0
    ELSE IF Condition(crit[k], info) THEN k
    ELSE FirstCriterionRefiring(crit, info, fired, k + 1)

\* The inner loop over SUBTITLE_CRITERIA from position k on: the index of the
\* first criterion whose condition holds and whose status is still False, or
\* 0 when there is none.
RECURSIVE FirstCriterion(_, _, _, _)
FirstCriterion(crit, info, fired, k) ==
    IF k > Len(crit) THEN 0
    ELSE IF Condition(crit[k], info) /\ crit[k].name \notin fired THEN k
    ELSE FirstCriterion(crit, info, fired, k + 1)

\* subtitle_info after the matching criterion has written into it.
Selected(info, c) ==
    [track_nr |-> info.track_nr, language |-> info.language,
     stream_size |-> info.stream_size, proportion |-> info.proportion,
     default |-> c.default, priority |-> c.priority, name |-> c.name]

\* The loop over text_tracks from position i on; list is subtitle_list and
\* fired the set of names whose criteria_status is True.
RECURSIVE SubtitleLoop(_, _, _, _, _)
SubtitleLoop(tracks, crit, i, list, fired) ==
    IF i > Len(tracks) THEN [exc |-> "none", val |-> list]
    ELSE IF TrackRaises(tracks[i]) THEN [exc |-> "TypeError", val |-> <<>>]
    ELSE LET info == SubtitleInfo(tracks[i])
             k == FirstCriterion(crit, info, fired, 1)
         IN IF k = 0 THEN SubtitleLoop(tracks, crit, i + 1, list, fired)
            ELSE SubtitleLoop(tracks, crit, i + 1,
                              Append(list, Selected(info, crit[k])),
                              fired \cup {crit[k].name})

\* list.sort(key=priority): a stable sort, as insertion behind every element
\* whose priority is not larger.
RECURSIVE InsertByPriority(_, _)
InsertByPriority(sorted, x) ==
    IF sorted = <<>> THEN <<x>>
    ELSE IF sorted[1].priority <= x.priority
         THEN <<sorted[1]>> \o InsertByPriority(Tail(sorted), x)
         ELSE <<x>> \o sorted

RECURSIVE SortByPriority(_)
SortByPriority(list) ==
    IF list = <<>> THEN <<>>
    ELSE InsertByPriority(SortByPriority(SubSeq(list, 1, Len(list) - 1)),
                          list[Len(list)])

\* get_subtitles(input_file) with the rule set as a parameter.  The result is
\* [exc, val]: the exception that leaves the function ("none" when it
\* returns) and the returned list; the "" returned on FileNotFoundError and
\* the empty list are both <<>>.
get_subtitles(parse, tracks, crit) ==
    IF parse = "FileNotFoundError" THEN [exc |-> "none", val |-> <<>>]
    ELSE IF parse # "ok" THEN [exc |-> parse, val |-> <<>>]
    ELSE LET r == SubtitleLoop(tracks, crit, 1, <<>>, {})
         IN IF r.exc # "none" THEN r
            ELSE [exc |-> "none", val |-> SortByPriority(r.val)]

\* ------------------------------------------------------ add_subtitle_command
\* A literal of the source as a string of one piece.
Lit(s) == <<s>>

\* [f(x) for x in list]
RECURSIVE MapTrackNr(_)
MapTrackNr(subtitles) ==
    IF subtitles = <<>> THEN <<>>
    ELSE <<ToStr(subtitles[1].track_nr)>> \o MapTrackNr(Tail(subtitles))

RECURSIVE MapName(_)
MapName(subtitles) ==
    IF subtitles = <<>> THEN <<>>
    ELSE <<Lit(subtitles[1].name)>> \o MapName(Tail(subtitles))

\* add_subtitle_command with the last subtitle as the default.
AddSubtitleCommandLastDefault(command, subtitles) ==
    IF subtitles = <<>> THEN command
    ELSE command \o
         << Lit("--subtitle-burned=none"),
            Lit("--subtitle"), Join(<<",">>, MapTrackNr(subtitles)),
            Lit("--subname"), Join(<<",">>, MapName(subtitles)),
            Lit("--subtitle-default"),
            ToStr(subtitles[Len(subtitles)].track_nr) >>

\* add_subtitle_command(command, subtitles): the returned list of tokens.
add_subtitle_command(command, subtitles) ==
    IF subtitles = <<>> THEN command
    ELSE command \o
         << Lit("--subtitle-burned=none"),
            Lit("--subtitle"), Join(<<",">>, MapTrackNr(subtitles)),
            Lit("--subname"), Join(<<",">>, MapName(subtitles)),
            Lit("--subtitle-default"), ToStr(subtitles[1].track_nr) >>

\* -------------------------------------------------------------------- paths
INPUT_FOLDER == Lit("videos\\input\\")
OUTPUT_FOLDER == Lit("videos\\output\\")
HANDBRAKE_CLI_PATH == Lit("src/HandBrakeCLI.exe")

\* os.path.join(folder, name) for a name with no separator in it (POSIX: the
\* folder constants do not end in "/", so one is inserted).
os_path_join(folder, name) == folder \o <<"/">> \o name

\* os.path.basename(path): what follows the last "/".
RECURSIVE os_path_basename(_)
os_path_basename(path) ==
    IF \A i \in 1..Len(path) : path[i] # "/" THEN path
    ELSE os_path_basename(Tail(path))

\* os.path.splitext(name)[0]: the name up to its last ".", when that dot has
\* a character other than "." somewhere before it.
splitext_root(name) ==
    LET dots == {i \in 1..Len(name) : name[i] = "."}
        last == CHOOSE i \in dots : \A j \in dots : j <= i
    IN IF dots = {} THEN name
       ELSE IF \E j \in 1..(last - 1) : name[j] # "."
            THEN SubSeq(name, 1, last - 1)
            ELSE name

\* ------------------------------------------------------------------ ledger
\* The characters str.strip() removes: those str.isspace() holds of.
Whitespace ==
    {" ", "\t", "\n", "\r", "\f", "\\x0b", "\\x1c", "\\x1d", "\\x1e", "\\x1f",
     "\\x85", "\\xa0", "\\u1680", "\\u2000", "\\u2001", "\\u2002", "\\u2003",
     "\\u2004", "\\u2005", "\\u2006", "\\u2007", "\\u2008", "\\u2009",
     "\\u200a", "\\u2028", "\\u2029", "\\u202f", "\\u205f", "\\u3000"}

\* str.strip()
RECURSIVE lstrip(_)
lstrip(s) == IF s # <<>> /\ s[1] \in Whitespace THEN lstrip(Tail(s)) ELSE s

RECURSIVE rstrip(_)
rstrip(s) == IF s # <<>> /\ s[Len(s)] \in Whitespace
             THEN rstrip(SubSeq(s, 1, Len(s) - 1)) ELSE s

strip(s) == rstrip(lstrip(s))

\* The lines of a text file opened with open(path, 'r'), as iteration over
\* the file yields them: each with its "\n", the last one without when the
\* file does not end in one.  The file is read with universal newlines: a
\* "\r\n" and a "\r" alone end a line as well and arrive as "\n".
RECURSIVE FileLines(_, _)
FileLines(content, cur) ==
    IF content = <<>> THEN (IF cur = <<>> THEN <<>> ELSE <<cur>>)
    ELSE IF content[1] = "\n"
         THEN <<Append(cur, "\n")>> \o FileLines(Tail(content), <<>>)
    ELSE IF content[1] = "\r"
         THEN <<Append(cur, "\n")>>
              \o FileLines(IF Len(content) >= 2 /\ content[2] = "\n"
                           THEN SubSeq(content, 3, Len(content))
                           ELSE Tail(content), <<>>)
         ELSE FileLines(Tail(content), Append(cur, content[1]))

\* read_processed_files without the strip: the lines keep their "\n".
ReadProcessedFilesUnstripped(content) ==
    {FileLines(content, <<>>)[i] : i \in 1..Len(FileLines(content, <<>>))}

\* read_processed_files(): the set of stripped lines; a ledger that does not
\* exist yet reads like an empty one.
read_processed_files(content) ==
    {strip(FileLines(content, <<>>)[i]) : i \in 1..Len(FileLines(content, <<>>))}

\* write_processed_file(file_path): the content of the ledger afterwards.
write_processed_file(content, file_path) ==
    content \o os_path_basename(file_path) \o <<"\n">>

\* ------------------------------------------------------------ encode_video
DefaultLanguages == <<"de", "en">>

\* The list `command` of encode_video.
BaselineCommand(input_file, output_file, audio_command) ==
    << HANDBRAKE_CLI_PATH,
       Lit("--input"), input_file,
       Lit("--output"), output_file,
       Lit("--encoder"), Lit("x265"),
       Lit("--encoder-preset"), Lit("medium"),
       Lit("--encoder-profile"), Lit("main10"),
       Lit("--quality"), Lit("17.5"),
       Lit("--vfr"),
       Lit("--crop-mode"), Lit(" auto"),
       Lit("--auto-anamorphic"),
       Lit("--lapsharp=light"),
       Lit("--hqdn3d=light"),
       Lit("--auto-anamorphic"),
       Lit("--aencoder"), Lit("copy"),
       Lit("--audio-copy-mask"), Lit("ac3,aac,eac3,truehd,dts,dtshd,flac"),
       Lit("--audio-fallback"), Lit("av_aac"),
       Lit("--audio"), audio_command,
       Lit("--aname"), <<"Deutsch", ",", "English">>,
       Lit("--native-language"), Lit("deu"),
       Lit("--markers"),
       Lit("--turbo"),
       Lit("--format"), Lit("av_mkv") >>

\* RunAndRecord with the ledger written whatever the encoder's exit.
RunAndRecordAlways(run, write, content, input_file) ==
    [exc |-> "none", ledger |-> write_processed_file(content, input_file)]

\* The exceptions the except clauses of encode_video catch.
Caught == {"CalledProcessError", "FileNotFoundError"}

\* The try block of encode_video: subprocess.run(..., check=True) ends as
\* run says ("zero", "CalledProcessError", "FileNotFoundError" when the
\* binary is missing, or "PermissionError" when it is there and cannot be
\* executed), and write_processed_file as write says ("ok",
\* "FileNotFoundError" when the ledger's folder is missing, "PermissionError").
\* Both except clauses only log.  The result is the exception that leaves
\* encode_video and the ledger afterwards.
RunAndRecord(run, write, content, input_file) ==
    IF run = "zero"
    THEN IF write = "ok"
         THEN [exc |-> "none",
               ledger |-> write_processed_file(content, input_file)]
         ELSE IF write \in Caught
              THEN [exc |-> "none", ledger |-> content]
              ELSE [exc |-> write, ledger |-> content]
    ELSE IF run \in Caught
         THEN [exc |-> "none", ledger |-> content]
         ELSE [exc |-> run, ledger |-> content]

\* How os.makedirs(os.path.dirname(output_file), exist_ok=True) can go.
MakedirsOutcomes == {"ok", "PermissionError"}

\* encode_video up to its try block: the exception that leaves it there (of
\* os.makedirs or of get_subtitles), or the list extended_command.
PrepareEncode(input_file, output_file, mkdir, media) ==
    LET audio_command == get_audio_indices(media.parse, media.audio_tracks,
                                           DefaultLanguages, TRUE)
        command == BaselineCommand(input_file, output_file, audio_command)
        subtitles == get_subtitles(media.parse, media.text_tracks,
                                   SUBTITLE_CRITERIA)
    IN IF mkdir # "ok" THEN [exc |-> mkdir, command |-> <<>>]
       ELSE IF subtitles.exc # "none"
       THEN [exc |-> subtitles.exc, command |-> <<>>]
       ELSE [exc |-> "none",
             command |-> add_subtitle_command(command, subtitles.val)]

\* encode_video(input_file, output_file) on a file with the given media.  An
\* exception of os.makedirs or of get_subtitles leaves the function before
\* the encoder is run.
encode_video(input_file, output_file, mkdir, media, run, write, content) ==
    LET prepared == PrepareEncode(input_file, output_file, mkdir, media)
        tried == RunAndRecord(run, write, content, input_file)
    IN IF prepared.exc # "none"
       THEN [exc |-> prepared.exc, command |-> <<>>, exit |-> "not run",
             ledger |-> content]
       ELSE [exc |-> tried.exc, command |-> prepared.command,
             exit |-> run, ledger |-> tried.ledger]

\* How the try block can go: <<run, write>>, write counting only after a
\* zero exit.
TryOutcomes ==
    { <<"zero", "ok">>, <<"zero", "FileNotFoundError">>,
      <<"zero", "PermissionError">>, <<"CalledProcessError", "ok">>,
      <<"FileNotFoundError", "ok">>, <<"PermissionError", "ok">> }

\* ------------------------------------------------------------------ inputs
AudioLanguages == {"de", "en", "fr", None}
PreferenceLanguages == {"de", "en", "fr"}

\* A text track as pymediainfo reports it: the i-th text track of a file has
\* stream_identifier i - 1.
TextTrack(i, lang, p) ==
    [stream_identifier |-> i - 1, language |-> lang, stream_size |-> 0,
     proportion_of_this_stream |-> p, default |-> "No"]

\* <<language, proportion in units of 1 / PropDen>>: below 0.1 and below 1
\* after the scaling, in both languages of the rules; a track with no
\* language; a track too large for every rule.
TextTrackOptions ==
    ({"de", "en"} \X {5, 50}) \cup {<<None, 50>>, <<"de", 5000>>}

TextTrackLists(n) ==
    UNION { { [i \in 1..k |-> TextTrack(i, f[i][1], f[i][2])] :
              f \in [1..k -> TextTrackOptions] } : k \in 0..n }

\* (de, 0.05), (de, 0.5), (en, 0.3): the proportions as the specification's
\* example writes them.
ExampleTracks ==
    << TextTrack(1, "de", 5000), TextTrack(2, "de", 50000),
       TextTrack(3, "en", 30000) >>

\* (de, 0.00005), (de, 0.0005), (en, 0.0003): the same example with
\* proportions that are 0.05, 0.5 and 0.3 after the scaling by 1000.
ScaledExampleTracks ==
    << TextTrack(1, "de", 5), TextTrack(2, "de", 50), TextTrack(3, "en", 30) >>

\* A text track for which pymediainfo reports no proportion.
NoProportionTracks == << TextTrack(1, "de", NoNumber) >>

ExtraTrackLists == {ExampleTracks, ScaledExampleTracks, NoProportionTracks}

CriterionNames == <<"Fremdsprache", "Deutsch", "English", "Francais">>

\* Rule sets of up to n rules with distinct names and distinct priorities.
CriteriaSets(n) ==
    UNION { { [i \in 1..k |->
                 Criterion(CriterionNames[i], prio[i], cond[i][1], cond[i][2],
                           IF i = 1 THEN "Yes" ELSE "No")] :
              prio \in {q \in [1..k -> 1..n] :
                          \A a, b \in 1..k : a # b => q[a] # q[b]},
              cond \in [1..k -> {"de", "en"} \X {1, 10}] } : k \in 0..n }

FileNames == { <<"a">>, <<" ", "a">> }

Media(parse, audio, text) ==
    [parse |-> parse, audio_tracks |-> audio, text_tracks |-> text]

ParseFailures == {"FileNotFoundError", "ValueError"}

EncodeMedia ==
    { Media("ok", a, t) : a \in SeqsUpTo(AudioLanguages, MaxEncAudio),
                          t \in TextTrackLists(MaxEncText) \cup ExtraTrackLists }
    \cup { Media(e, <<>>, <<>>) : e \in ParseFailures }

\* ----------------------------------------------- the single-call behaviours
\* The GUI after main() has built the window: running = False, the status
\* dot red, no thread started.
GuiIdle ==
    /\ running = FALSE /\ status_dot = "red"
    /\ workers = [w \in 1..MaxWorkers |-> "unborn"]
    /\ stop_seen = {}

AudioIdle ==
    /\ audio_tracks = <<>> /\ languages = <<>> /\ first_only = TRUE
    /\ audio_result = <<>>

SubtitleIdle ==
    /\ text_tracks = <<>> /\ criteria = <<>>
    /\ subtitle_result = [exc |-> "none", val |-> <<>>]

EncodeIdle ==
    /\ enc_input = [file |-> <<"a">>, media |-> Media("ok", <<>>, <<>>)]
    /\ extended_command = <<>>

BatchIdle ==
    /\ entries = [n \in FileNames |-> "absent"]
    /\ pc = "idle" /\ already_processed = {} /\ files = <<>> /\ pos = 0
    /\ runs = 0 /\ invoked = {} /\ recorded = {} /\ prev_settled = {}
    /\ added = FALSE /\ fresh = FALSE /\ succeeded = {}

InitAudio ==
    /\ GuiIdle
    /\ audio_tracks \in SeqsUpTo(AudioLanguages, MaxAudioTracks)
    /\ languages \in SeqsUpTo(PreferenceLanguages, MaxLanguages)
    /\ first_only \in BOOLEAN
    /\ audio_result = <<>>
    /\ fn_pc = "ready"
    /\ SubtitleIdle /\ EncodeIdle /\ BatchIdle
    /\ exit_status = "not run" /\ ledger = <<>>

\* A call get_audio_indices(input_file, languages, first_only) on a file that
\* pymediainfo parses.
CallGetAudioIndices ==
    /\ fn_pc = "ready"
    /\ audio_result' = get_audio_indices("ok", audio_tracks, languages, first_only)
    /\ fn_pc' = "returned"
    /\ UNCHANGED <<audio_tracks, languages, first_only, subtitle_vars,
                   encode_vars, exit_status, ledger, batch_vars, gui_vars>>

NextAudio == CallGetAudioIndices
SpecAudio == InitAudio /\ [][NextAudio]_vars

InitSubtitles ==
    /\ GuiIdle
    /\ text_tracks \in TextTrackLists(MaxTextTracks) \cup ExtraTrackLists
    /\ criteria \in CriteriaSets(MaxCriteria) \cup {SUBTITLE_CRITERIA}
    /\ subtitle_result = [exc |-> "none", val |-> <<>>]
    /\ fn_pc = "ready"
    /\ AudioIdle /\ EncodeIdle /\ BatchIdle
    /\ exit_status = "not run" /\ ledger = <<>>

\* A call get_subtitles(input_file) on a file that pymediainfo parses.
CallGetSubtitles ==
    /\ fn_pc = "ready"
    /\ subtitle_result' = get_subtitles("ok", text_tracks, criteria)
    /\ fn_pc' = IF subtitle_result'.exc = "none" THEN "returned" ELSE "raised"
    /\ UNCHANGED <<text_tracks, criteria, audio_vars, encode_vars,
                   exit_status, ledger, batch_vars, gui_vars>>

NextSubtitles == CallGetSubtitles
SpecSubtitles == InitSubtitles /\ [][NextSubtitles]_vars

InitEncode ==
    /\ GuiIdle
    /\ enc_input \in [file : FileNames, media : EncodeMedia]
    /\ extended_command = <<>>
    /\ fn_pc = "ready"
    /\ AudioIdle /\ SubtitleIdle /\ BatchIdle
    /\ exit_status = "not run" /\ ledger = <<>>

input_path(file) == os_path_join(INPUT_FOLDER, file)
output_path(file) ==
    os_path_join(OUTPUT_FOLDER, splitext_root(file) \o Lit(".mkv"))

\* A call encode_video(input_file_path, output_file_path), whole: the command
\* is assembled, the encoder runs and ends one way or another, and the ledger
\* is appended to after a zero exit.
CallEncodeVideo ==
    /\ fn_pc = "ready"
    /\ \E mkdir \in MakedirsOutcomes, try \in TryOutcomes :
         LET r == encode_video(input_path(enc_input.file),
                               output_path(enc_input.file), mkdir,
                               enc_input.media, try[1], try[2], ledger)
         IN /\ extended_command' = r.command
            /\ exit_status' = r.exit
            /\ ledger' = r.ledger
            /\ fn_pc' = IF r.exc = "none" THEN "returned" ELSE "raised"
    /\ UNCHANGED <<enc_input, audio_vars, subtitle_vars, batch_vars, gui_vars>>

NextEncode == CallEncodeVideo
SpecEncode == InitEncode /\ [][NextEncode]_vars

\* ------------------------------------------------------ process_all_videos
\* What pymediainfo reports for the files of the input folder: one media per
\* way encode_video can go.
BatchMedia ==
    { Media("ok", <<"de", "en">>, <<TextTrack(1, "de", 5)>>),
      Media("ok", <<"en">>, NoProportionTracks),
      Media("FileNotFoundError", <<>>, <<>>),
      Media("ValueError", <<>>, <<>>) }

\* os.listdir(INPUT_FOLDER): the entries of the folder, in any order.
Listings(dir) ==
    LET present == {n \in FileNames : dir[n] # "absent"}
    IN { l \in [1..Cardinality(present) -> present] :
           \A a, b \in 1..Cardinality(present) : a # b => l[a] # l[b] }

\* The names a reader of the ledger finds in it: its lines without the
\* whitespace around them.
LedgerNames(content) ==
    LET lines == FileLines(content, <<>>)
    IN {strip(lines[i]) : i \in 1..Len(lines)}

\* The names this run leaves settled so far: met in the listing with their
\* name in already_processed, or appended to the ledger, and found in the
\* ledger as it is now.  A name with whitespace at either end or a line
\* break inside is never found, and neither are the two names of a line
\* that an append has run into (the ledger had no final line break).
Settled ==
    ({files[i] : i \in {j \in 1..pos : files[j] \in already_processed}}
     \cup recorded) \cap LedgerNames(ledger)

\* os.path.isfile(input_file_path) and file not in already_processed
IsNew(file) == entries[file] = "file" /\ file \notin already_processed

\* How the loop goes on after the entry at pos + 1, exc being the exception
\* that left the loop body.
AfterEntry(exc) ==
    IF exc # "none" THEN "aborted"
    ELSE IF pos + 1 = Len(files) THEN "done" ELSE "running"

Init ==
    /\ GuiIdle
    /\ BatchIdle
    /\ ledger = <<>> /\ exit_status = "not run"
    /\ AudioIdle /\ SubtitleIdle /\ EncodeIdle /\ fn_pc = "ready"

\* process_all_videos() up to its loop: the ledger and the folder are read.
\* The client calls it again, in a new process or in the same one.
StartRun ==
    /\ pc \notin {"running", "encoding"} /\ runs < MaxRuns
    /\ already_processed' = read_processed_files(ledger)
    /\ \E l \in Listings(entries) :
         /\ files' = l
         /\ pc' = IF l = <<>> THEN "done" ELSE "running"
    /\ pos' = 0 /\ runs' = runs + 1
    /\ prev_settled' = Settled
    /\ fresh' = (runs >= 1 /\ ~added) /\ added' = FALSE
    /\ invoked' = {} /\ recorded' = {}
    /\ exit_status' = "not run"
    /\ UNCHANGED <<entries, ledger, succeeded, audio_vars, subtitle_vars,
                   fn_pc, encode_vars, gui_vars>>

\* A round of the loop on a new file, up to the start of the encoder:
\* encode_video(input_file_path, output_file_path) assembles the command
\* and hands it to subprocess.run, or an exception leaves it before.
EncodeEntry ==
    /\ pc = "running" /\ IsNew(files[pos + 1])
    /\ \E mkdir \in MakedirsOutcomes, media \in BatchMedia :
         LET file == files[pos + 1]
             p == PrepareEncode(input_path(file), output_path(file), mkdir,
                                media)
         IN /\ extended_command' = p.command
            /\ IF p.exc # "none"
               THEN /\ pc' = AfterEntry(p.exc) /\ pos' = pos + 1
                    /\ exit_status' = "not run"
                    /\ UNCHANGED invoked
               ELSE /\ pc' = "encoding" /\ pos' = pos
                    /\ exit_status' = "pending"
                    /\ invoked' = invoked \cup {file}
    /\ UNCHANGED <<entries, ledger, already_processed, files, runs, recorded,
                   succeeded, prev_settled, added, fresh, enc_input,
                   audio_vars, subtitle_vars, fn_pc, gui_vars>>

\* The rest of that round: subprocess.run returns or raises, and after a
\* zero exit write_processed_file appends the file's line.
EncoderExit ==
    /\ pc = "encoding"
    /\ \E try \in TryOutcomes :
         LET file == files[pos + 1]
             r == RunAndRecord(try[1], try[2], ledger, input_path(file))
         IN /\ ledger' = r.ledger
            /\ exit_status' = try[1]
            /\ recorded' = IF r.ledger # ledger THEN recorded \cup {file}
                           ELSE recorded
            /\ succeeded' = IF try[1] = "zero" THEN succeeded \cup {file}
                            ELSE succeeded
            /\ pc' = AfterEntry(r.exc)
    /\ pos' = pos + 1
    /\ UNCHANGED <<entries, already_processed, files, runs, invoked,
                   prev_settled, added, fresh, audio_vars, subtitle_vars,
                   fn_pc, encode_vars, gui_vars>>

\* One round of the loop on an entry that is no file or is in
\* already_processed: the else branch, which only logs.
SkipEntry ==
    /\ pc = "running" /\ ~IsNew(files[pos + 1])
    /\ pos' = pos + 1
    /\ pc' = AfterEntry("none")
    /\ exit_status' = "not run"
    /\ UNCHANGED <<entries, ledger, already_processed, files, runs, invoked,
                   recorded, prev_settled, added, fresh, succeeded,
                   audio_vars, subtitle_vars, fn_pc, encode_vars, gui_vars>>

\* The input folder changes under the program.
AddFile ==
    /\ \E n \in FileNames :
         /\ entries[n] = "absent"
         /\ entries' = [entries EXCEPT ![n] = "file"]
    /\ added' = TRUE
    /\ UNCHANGED <<ledger, exit_status, pc, already_processed, files, pos,
                   runs, invoked, recorded, prev_settled, fresh, succeeded, audio_vars, subtitle_vars, fn_pc, encode_vars,
                   gui_vars>>

AddDir ==
    /\ \E n \in FileNames :
         /\ entries[n] = "absent"
         /\ entries' = [entries EXCEPT ![n] = "dir"]
    /\ UNCHANGED <<ledger, exit_status, pc, already_processed, files, pos,
                   runs, invoked, recorded, prev_settled, added, fresh,
                   succeeded, audio_vars, subtitle_vars, fn_pc,
                   encode_vars, gui_vars>>

RemoveEntry ==
    /\ \E n \in FileNames :
         /\ entries[n] # "absent"
         /\ entries' = [entries EXCEPT ![n] = "absent"]
    /\ UNCHANGED <<ledger, exit_status, pc, already_processed, files, pos,
                   runs, invoked, recorded, prev_settled, added, fresh,
                   succeeded, audio_vars, subtitle_vars, fn_pc,
                   encode_vars, gui_vars>>

Next ==
    \/ StartRun
    \/ EncodeEntry
    \/ EncoderExit
    \/ SkipEntry
    \/ AddFile
    \/ AddDir
    \/ RemoveEntry

Spec == Init /\ [][Next]_vars

\* The ledger the program finds when it is first started: none, one the
\* program left, or one whose last line has no line break (a file edited by
\* hand).
InitialLedgers == { <<>>, <<"a", "\n">>, <<"a">> }

InitAnyLedger ==
    /\ GuiIdle
    /\ BatchIdle
    /\ ledger \in InitialLedgers /\ exit_status = "not run"
    /\ AudioIdle /\ SubtitleIdle /\ EncodeIdle /\ fn_pc = "ready"

SpecAnyLedger == InitAnyLedger /\ [][Next]_vars

\* ------------------------------------------------- main.py and its encoder
\* main.py imports process_all_videos from the encoder.py beside it, an
\* earlier draft: its ledger holds whole input paths, it selects the audio
\* tracks by position and takes no subtitle decisions.  MONITORING is False,
\* so a process makes one call of process_all_videos; whatever exception
\* leaves it is logged by main.py and the process ends.

\* write_processed_file(file) of the draft: the path as it is, and "\n".
draft_write_processed_file(content, file) == content \o file \o <<"\n">>

\* get_audio_streams(input_file): the languages of the Audio tracks, in the
\* order of the file.
get_audio_streams(media) == media.audio_tracks

\* next((i for i, item in enumerate(audio_streams) if item['language'] ==
\* lang), -1) + 1
IndexPlusOne(audio_streams, lang) ==
    LET hits == {i \in 1..Len(audio_streams) : audio_streams[i] = lang}
    IN IF hits = {} THEN 0 ELSE CHOOSE i \in hits : \A j \in hits : i <= j

\* The list `command` of the draft's encode_video.
DraftCommand(input_file, output_file, indexDe1, indexEn1) ==
    << HANDBRAKE_CLI_PATH,
       Lit("--input"), input_file,
       Lit("--output"), output_file,
       Lit("--encoder"), Lit("x265"),
       Lit("--encoder-preset"), Lit("medium"),
       Lit("--encoder-profile"), Lit("main10"),
       Lit("--quality"), Lit("17"),
       Lit("--vfr"),
       Lit("--unsharp-tune"), Lit("fine"),
       Lit("--hqdn3d"), Lit("light"),
       Lit("--width"), Lit("720"),
       Lit("--height"), Lit("576"),
       Lit("--auto-anamorphic"),
       Lit("--aencoder"), Lit("av_aac"),
       Lit("--audio"), ToStr(indexDe1) \o <<",">> \o ToStr(indexEn1),
       Lit("--aname"), <<"Deutsch", ",", "English">>,
       Lit("--mixdown"), Lit("dpl1"),
       Lit("--subtitle-lang-list"), Lit("deu,eng"),
       Lit("--first-subtitle"),
       Lit("--subname"), Lit("Deutsch,English"),
       Lit("--aq"), Lit("5"),
       Lit("--markers"),
       Lit("--multi-pass"),
       Lit("--turbo"),
       Lit("--format"), Lit("av_mkv") >>

\* The try block of the draft's encode_video: as RunAndRecord, the ledger
\* receiving input_file as it is.
DraftRunAndRecord(run, write, content, input_file) ==
    IF run = "zero"
    THEN IF write = "ok"
         THEN [exc |-> "none",
               ledger |-> draft_write_processed_file(content, input_file)]
         ELSE IF write \in Caught
              THEN [exc |-> "none", ledger |-> content]
              ELSE [exc |-> write, ledger |-> content]
    ELSE IF run \in Caught
         THEN [exc |-> "none", ledger |-> content]
         ELSE [exc |-> run, ledger |-> content]

\* The draft's encode_video up to its try block.  MediaInfo.parse is called
\* without a try: its exception leaves the function.
DraftPrepareEncode(input_file, output_file, mkdir, media) ==
    LET audio_streams == get_audio_streams(media)
    IN IF mkdir # "ok" THEN [exc |-> mkdir, command |-> <<>>]
       ELSE IF media.parse # "ok" THEN [exc |-> media.parse, command |-> <<>>]
       ELSE [exc |-> "none",
             command |-> DraftCommand(input_file, output_file,
                                      IndexPlusOne(audio_streams, "de"),
                                      IndexPlusOne(audio_streams, "en"))]

\* encode_video(input_file, output_file) of the draft.
draft_encode_video(input_file, output_file, mkdir, media, run, write, content) ==
    LET prepared == DraftPrepareEncode(input_file, output_file, mkdir, media)
        tried == DraftRunAndRecord(run, write, content, input_file)
    IN IF prepared.exc # "none"
       THEN [exc |-> prepared.exc, command |-> <<>>, exit |-> "not run",
             ledger |-> content]
       ELSE [exc |-> tried.exc, command |-> prepared.command, exit |-> run,
             ledger |-> tried.ledger]

DraftMedia ==
    { Media("ok", <<"de", "en">>, <<>>),
      Media("ok", <<"fr", "en">>, <<>>),
      Media("ok", <<None>>, <<>>),
      Media("FileNotFoundError", <<>>, <<>>) }

\* os.path.isfile(input_file_path) and input_file_path not in
\* already_processed
DraftIsNew(file) ==
    entries[file] = "file" /\ input_path(file) \notin already_processed

InitMain ==
    /\ GuiIdle
    /\ BatchIdle
    /\ ledger = <<>> /\ exit_status = "not run"
    /\ AudioIdle /\ SubtitleIdle /\ EncodeIdle /\ fn_pc = "ready"

\* `python main.py`: the import of encoder, which fails with
\* ModuleNotFoundError where no module `constants` is on the path, and then
\* process_all_videos() up to its loop.
MainStartRun ==
    /\ pc \notin {"running", "encoding"} /\ runs < MaxRuns
    /\ \E importable \in BOOLEAN :
         IF importable
         THEN /\ already_processed' = read_processed_files(ledger)
              /\ \E l \in Listings(entries) :
                   /\ files' = l
                   /\ pc' = IF l = <<>> THEN "done" ELSE "running"
         ELSE /\ pc' = "import failed"
              /\ already_processed' = {} /\ files' = <<>>
    /\ pos' = 0 /\ runs' = runs + 1
    /\ invoked' = {} /\ recorded' = {}
    /\ exit_status' = "not run"
    /\ UNCHANGED <<entries, ledger, prev_settled, added, fresh, succeeded,
                   audio_vars, subtitle_vars, fn_pc, encode_vars, gui_vars>>

\* A round of the draft's loop on a new file, up to the start of the
\* encoder.
MainEncodeEntry ==
    /\ pc = "running" /\ DraftIsNew(files[pos + 1])
    /\ \E mkdir \in MakedirsOutcomes, media \in DraftMedia :
         LET file == files[pos + 1]
             p == DraftPrepareEncode(input_path(file), output_path(file),
                                     mkdir, media)
         IN /\ extended_command' = p.command
            /\ IF p.exc # "none"
               THEN /\ pc' = AfterEntry(p.exc) /\ pos' = pos + 1
                    /\ exit_status' = "not run"
                    /\ UNCHANGED invoked
               ELSE /\ pc' = "encoding" /\ pos' = pos
                    /\ exit_status' = "pending"
                    /\ invoked' = invoked \cup {file}
    /\ UNCHANGED <<entries, ledger, already_processed, files, runs, recorded,
                   succeeded, prev_settled, added, fresh, enc_input,
                   audio_vars, subtitle_vars, fn_pc, gui_vars>>

\* The rest of that round: subprocess.run returns or raises, and after a
\* zero exit the draft's write_processed_file appends the input path.
MainEncoderExit ==
    /\ pc = "encoding"
    /\ \E try \in TryOutcomes :
         LET file == files[pos + 1]
             r == DraftRunAndRecord(try[1], try[2], ledger, input_path(file))
         IN /\ ledger' = r.ledger
            /\ exit_status' = try[1]
            /\ recorded' = IF r.ledger # ledger THEN recorded \cup {file}
                           ELSE recorded
            /\ succeeded' = IF try[1] = "zero" THEN succeeded \cup {file}
                            ELSE succeeded
            /\ pc' = AfterEntry(r.exc)
    /\ pos' = pos + 1
    /\ UNCHANGED <<entries, already_processed, files, runs, invoked,
                   prev_settled, added, fresh, audio_vars, subtitle_vars,
                   fn_pc, encode_vars, gui_vars>>

\* One round of the draft's loop on an entry that is no file or whose path
\* is in already_processed: the else branch, which only logs.
MainSkipEntry ==
    /\ pc = "running" /\ ~DraftIsNew(files[pos + 1])
    /\ pos' = pos + 1
    /\ pc' = AfterEntry("none")
    /\ exit_status' = "not run"
    /\ UNCHANGED <<entries, ledger, already_processed, files, runs, invoked,
                   recorded, prev_settled, added, fresh, succeeded,
                   audio_vars, subtitle_vars, fn_pc, encode_vars, gui_vars>>

NextMain ==
    \/ MainStartRun
    \/ MainEncodeEntry
    \/ MainEncoderExit
    \/ MainSkipEntry
    \/ AddFile
    \/ AddDir
    \/ RemoveEntry

SpecMain == InitMain /\ [][NextMain]_vars

\* --------------------------------------------------------------------- gui
\* A run_script thread stands at "test" (the while condition), "log" (the
\* add_to_log of the loop body), "sleep" (time.sleep(2)), "last" (the
\* add_to_log after the loop) or is "done"; "unborn" before it is started.
Alive(w) == workers[w] \notin {"unborn", "done"}

InitGui ==
    /\ GuiIdle
    /\ AudioIdle /\ SubtitleIdle /\ EncodeIdle /\ BatchIdle /\ fn_pc = "ready"
    /\ ledger = <<>> /\ exit_status = "not run"

\* start_script(), the Start button's callback: with running False the flag
\* is set, the dot turns green and a thread is started on run_script;
\* otherwise only a message box is shown.
StartScript ==
    /\ running \/ \E w \in 1..MaxWorkers : workers[w] = "unborn"
    /\ IF ~running
       THEN /\ running' = TRUE
            /\ status_dot' = "green"
            /\ LET w == CHOOSE v \in 1..MaxWorkers :
                            /\ workers[v] = "unborn"
                            /\ \A u \in 1..(v - 1) : workers[u] # "unborn"
               IN workers' = [workers EXCEPT ![w] = "test"]
       ELSE UNCHANGED <<running, status_dot, workers>>
    /\ UNCHANGED <<stop_seen, audio_vars, subtitle_vars, fn_pc, encode_vars,
                   exit_status, ledger, batch_vars>>

\* stop_script(), the Stop button's callback: with running True the flag is
\* cleared and the dot turns red.
StopScript ==
    /\ IF running
       THEN running' = FALSE /\ status_dot' = "red"
       ELSE UNCHANGED <<running, status_dot>>
    /\ stop_seen' = stop_seen \cup {w \in 1..MaxWorkers : Alive(w)}
    /\ UNCHANGED <<workers, audio_vars, subtitle_vars, fn_pc, encode_vars,
                   exit_status, ledger, batch_vars>>

\* run_script: `while running`, read once per round.
WorkerTest(w) ==
    /\ workers[w] = "test"
    /\ workers' = [workers EXCEPT ![w] = IF running THEN "log" ELSE "last"]
    /\ UNCHANGED <<running, status_dot, stop_seen, audio_vars, subtitle_vars,
                   fn_pc, encode_vars, exit_status, ledger, batch_vars>>

\* run_script: add_to_log("The script is running...").
WorkerLog(w) ==
    /\ workers[w] = "log"
    /\ workers' = [workers EXCEPT ![w] = "sleep"]
    /\ UNCHANGED <<running, status_dot, stop_seen, audio_vars, subtitle_vars,
                   fn_pc, encode_vars, exit_status, ledger, batch_vars>>

\* run_script: time.sleep(2) returns.
WorkerWake(w) ==
    /\ workers[w] = "sleep"
    /\ workers' = [workers EXCEPT ![w] = "test"]
    /\ UNCHANGED <<running, status_dot, stop_seen, audio_vars, subtitle_vars,
                   fn_pc, encode_vars, exit_status, ledger, batch_vars>>

\* run_script: add_to_log("The script has stopped running."), and the thread
\* ends.
WorkerLast(w) ==
    /\ workers[w] = "last"
    /\ workers' = [workers EXCEPT ![w] = "done"]
    /\ UNCHANGED <<running, status_dot, stop_seen, audio_vars, subtitle_vars,
                   fn_pc, encode_vars, exit_status, ledger, batch_vars>>

WorkerStep(w) ==
    WorkerTest(w) \/ WorkerLog(w) \/ WorkerWake(w) \/ WorkerLast(w)

WorkerTests == \E w \in 1..MaxWorkers : WorkerTest(w)
WorkerLogs == \E w \in 1..MaxWorkers : WorkerLog(w)
WorkerWakes == \E w \in 1..MaxWorkers : WorkerWake(w)
WorkerLasts == \E w \in 1..MaxWorkers : WorkerLast(w)

NextGui ==
    \/ StartScript
    \/ StopScript
    \/ WorkerTests
    \/ WorkerLogs
    \/ WorkerWakes
    \/ WorkerLasts

\* Every started thread keeps being scheduled, and its sleep ends; the user
\* is free to press a button or not.
SpecGui ==
    /\ InitGui /\ [][NextGui]_vars
    /\ \A w \in 1..MaxWorkers : WF_vars(WorkerStep(w))

\* ================================================================ properties
\* Helpers of the properties: reading a string back.

\* s.split(sep), sep one piece; "".split(",") is [""].
RECURSIVE SplitOn(_, _, _)
SplitOn(s, sep, cur) ==
    IF s = <<>> THEN <<cur>>
    ELSE IF s[1] = sep THEN <<cur>> \o SplitOn(Tail(s), sep, <<>>)
    ELSE SplitOn(Tail(s), sep, Append(cur, s[1]))

DigitValue(c) == CHOOSE d \in 0..9 : Digits[d + 1] = c

\* int(s) for a string of digits.
RECURSIVE ParseNat(_)
ParseNat(s) ==
    IF Len(s) = 1 THEN DigitValue(s[1])
    ELSE ParseNat(SubSeq(s, 1, Len(s) - 1)) * 10 + DigitValue(s[Len(s)])

\* The numbers of a comma-joined list of indices; none for the empty string.
IndexList(s) ==
    IF s = <<>> THEN <<>>
    ELSE [i \in 1..Len(SplitOn(s, ",", <<>>)) |->
            ParseNat(SplitOn(s, ",", <<>>)[i])]

HasToken(command, token) == \E i \in 1..Len(command) : command[i] = token

\* The token that follows the first occurrence of token.
ValueAfter(command, token) ==
    command[(CHOOSE i \in 1..Len(command) :
               command[i] = token /\ \A j \in 1..(i - 1) : command[j] # token) + 1]

\* A line of the ledger without the "\n" that ends it.
Chomp(line) ==
    IF line # <<>> /\ line[Len(line)] = "\n"
    THEN SubSeq(line, 1, Len(line) - 1) ELSE line

LedgerLines == FileLines(ledger, <<>>)

\* ------------------------------------------------------------------------ C1
\* C1 as stated: in a run that follows another one with no file added in
\* between, the encoder is invoked for no file and nothing is appended to the
\* ledger.
C1_Idempotence == fresh => (invoked = {} /\ recorded = {})

\* C1, amended: in such a second run the encoder is invoked, and the ledger
\* appended to, for no file that the run before left settled (skipped as
\* processed, or recorded, and named by a line of the ledger as that run
\* left it); only files the run before did not record, or whose names the
\* ledger does not give back, are encoded again.
C1_IdempotenceOfSettled ==
    fresh => (invoked \cap prev_settled = {} /\ recorded \cap prev_settled = {})

\* A second run with no file added has finished, and has met a file the run
\* before recorded, without invoking the encoder.
C1_Witness ==
    /\ fresh /\ pc = "done" /\ invoked = {}
    /\ \E i \in 1..pos : files[i] \in prev_settled /\ entries[files[i]] = "file"

\* ------------------------------------------------------------------------ C2
\* C2: the ledger never holds two lines for the same basename, and the set
\* read_processed_files returns holds every identifier write_processed_file
\* has appended.
C2_LedgerUnique ==
    /\ \A i, j \in 1..Len(LedgerLines) :
         i # j => Chomp(LedgerLines[i]) # Chomp(LedgerLines[j])
    /\ \A i \in 1..Len(LedgerLines) :
         Chomp(LedgerLines[i]) \in read_processed_files(ledger)

\* ------------------------------------------------------------------------ C3
\* C3: when a run of process_all_videos is over, every entry of its listing
\* has been taken by the loop; no failure on one file ends the loop before
\* the entries behind it.
C3_BatchForwardProgress == pc \in {"done", "aborted"} => pos = Len(files)

\* ------------------------------------------------------------------------ C4
\* C4: the ledger changes only in a step in which the encoder exited with
\* zero status for the file at hand, and then by that file's line; a step in
\* which the invocation fails leaves the ledger as it was; so every line of
\* the ledger names a file whose encode succeeded before.
C4_AppendAfterSuccess ==
    /\ [](\A i \in 1..Len(LedgerLines) : Chomp(LedgerLines[i]) \in succeeded)
    /\ [][ /\ ledger' # ledger =>
                /\ pc = "encoding" /\ exit_status' = "zero"
                /\ ledger' = ledger \o files[pos + 1] \o <<"\n">>
           /\ exit_status' \in {"CalledProcessError", "FileNotFoundError"}
                => ledger' = ledger ]_vars

\* The encoder has just exited with zero status and the file's line is the
\* last of the ledger.
C4_Witness ==
    /\ exit_status = "zero" /\ pos > 0 /\ LedgerLines # <<>>
    /\ Chomp(LedgerLines[Len(LedgerLines)]) = files[pos]

\* ------------------------------------------------------------------------ C5
\* The positions of the preference list whose language some track has.
MatchedPreferences ==
    {k \in 1..Len(languages) :
       \E i \in 1..Len(audio_tracks) : audio_tracks[i] = languages[k]}

\* The 1-based position of the first track with the language.
FirstTrackWith(lang) ==
    CHOOSE i \in 1..Len(audio_tracks) :
        /\ audio_tracks[i] = lang
        /\ \A j \in 1..(i - 1) : audio_tracks[j] # lang

\* For each matched preference, in preference order, its first track.
ExpectedAudio ==
    [n \in 1..Cardinality(MatchedPreferences) |->
       FirstTrackWith(languages[
           CHOOSE k \in MatchedPreferences :
               Cardinality({m \in MatchedPreferences : m < k}) = n - 1])]

\* C5: with first_only, get_audio_indices returns, for each preference
\* language in preference order that occurs among the tracks, the 1-based
\* position of the first track with it and nothing else: no more indices for
\* a language than the preference list names it, no more than the preference
\* list is long, and none for an empty track list.
C5_AudioSelection ==
    (fn_pc = "returned" /\ first_only) =>
        LET got == IndexList(audio_result)
        IN /\ got = ExpectedAudio
           /\ Len(got) <= Len(languages)
           /\ \A lang \in PreferenceLanguages :
                Cardinality({i \in 1..Len(got) : audio_tracks[got[i]] = lang})
                  <= Cardinality({k \in 1..Len(languages) : languages[k] = lang})
           /\ audio_tracks = <<>> => audio_result = <<>>

\* Tracks de, en, de with preference de, en gave "1,2".
C5_Witness ==
    /\ fn_pc = "returned" /\ first_only
    /\ audio_tracks = <<"de", "en", "de">> /\ languages = <<"de", "en">>
    /\ audio_result = <<"1", ",", "2">>

\* ------------------------------------------------------------------------ C6
DistinctRules ==
    \A a, b \in 1..Len(criteria) :
        a # b => /\ criteria[a].name # criteria[b].name
                 /\ criteria[a].priority # criteria[b].priority

\* Rule k accepts track t.
RuleMatches(k, t) == Condition(criteria[k], SubtitleInfo(text_tracks[t]))

\* Under the assignment A of tracks to rules (0: none), rule k has not fired
\* before track t.
Unfired(A, k, t) == \A j \in 1..(t - 1) : A[j] # k

\* A gives every track the first rule, in rule order, that accepts it and
\* has not fired for an earlier track, and no rule when there is none.
FirstMatchAssignment(A) ==
    \A t \in 1..Len(text_tracks) :
        /\ A[t] # 0 =>
             /\ RuleMatches(A[t], t) /\ Unfired(A, A[t], t)
             /\ \A k \in 1..(A[t] - 1) : ~(RuleMatches(k, t) /\ Unfired(A, k, t))
        /\ A[t] = 0 =>
             \A k \in 1..Len(criteria) : ~(RuleMatches(k, t) /\ Unfired(A, k, t))

\* C6: for rules with distinct names and priorities, the list get_subtitles
\* returns is sorted ascending by priority, holds at most one selection per
\* rule and per track, and its selections are those of the first-match
\* assignment: each track goes to the first rule that accepts it and has not
\* fired yet, however many tracks a rule accepts.
C6_SubtitleSelectionShape ==
    (fn_pc = "returned" /\ DistinctRules) =>
        LET val == subtitle_result.val
        IN /\ \A i \in 1..(Len(val) - 1) : val[i].priority < val[i + 1].priority
           /\ \A i, j \in 1..Len(val) :
                i # j => /\ val[i].name # val[j].name
                         /\ val[i].track_nr # val[j].track_nr
           /\ \A A \in [1..Len(text_tracks) -> 0..Len(criteria)] :
                FirstMatchAssignment(A) =>
                    {<<val[i].track_nr, val[i].name>> : i \in 1..Len(val)}
                    = {<<text_tracks[t].stream_identifier + 1, criteria[A[t]].name>> :
                         t \in {u \in 1..Len(text_tracks) : A[u] # 0}}
           /\ \E A \in [1..Len(text_tracks) -> 0..Len(criteria)] :
                FirstMatchAssignment(A)

\* Two tracks that the first rule both accepts: the rule took the first one
\* only, the second went to the second rule, and the list is in priority
\* order, not in track order.
C6_Witness ==
    /\ fn_pc = "returned" /\ Len(text_tracks) = 2 /\ Len(criteria) = 2
    /\ RuleMatches(1, 1) /\ RuleMatches(1, 2)
    /\ Len(subtitle_result.val) = 2
    /\ subtitle_result.val[1].track_nr = 2
    /\ subtitle_result.val[2].track_nr = 1

\* ------------------------------------------------------------------------ C7
\* The selections of a returned list: track number, rule name, priority.
Picks(val) ==
    [i \in 1..Len(val) |-> <<val[i].track_nr, val[i].name, val[i].priority>>]

ThreePicks ==
    << <<1, "Fremdsprache", 1>>, <<2, "Deutsch", 2>>, <<3, "English", 3>> >>

\* C7 as stated: on the text tracks (de, 0.05), (de, 0.5), (en, 0.3) and
\* SUBTITLE_CRITERIA, get_subtitles returns three selections: track 1 under
\* the priority-1 rule, track 2 under the priority-2 rule, track 3 under the
\* priority-3 rule.
C7_ExampleSelections ==
    (fn_pc = "returned" /\ text_tracks = ExampleTracks
        /\ criteria = SUBTITLE_CRITERIA)
    => Picks(subtitle_result.val) = ThreePicks

\* C7, amended: the three selections are returned when the proportions are
\* 0.05, 0.5 and 0.3 after the scaling by 1000, that is for the tracks
\* (de, 0.00005), (de, 0.0005), (en, 0.0003); for the tracks as the example
\* writes them the scaled proportions are 50, 500 and 300, no rule accepts
\* any track, and the returned list is empty.
C7_ScaledExampleSelections ==
    (fn_pc = "returned" /\ criteria = SUBTITLE_CRITERIA) =>
        /\ text_tracks = ScaledExampleTracks
             => Picks(subtitle_result.val) = ThreePicks
        /\ text_tracks = ExampleTracks => subtitle_result.val = <<>>

C7_Witness ==
    /\ fn_pc = "returned" /\ criteria = SUBTITLE_CRITERIA
    /\ text_tracks = ScaledExampleTracks
    /\ Len(subtitle_result.val) = 3

\* ---------------------------------------------------------------- C8 to C10
\* What get_audio_indices and get_subtitles return inside the encode_video
\* call at hand, and the baseline list of that call.
EncAudioSelection ==
    get_audio_indices(enc_input.media.parse, enc_input.media.audio_tracks,
                      DefaultLanguages, TRUE)

EncSubtitleSelection ==
    get_subtitles(enc_input.media.parse, enc_input.media.text_tracks,
                  SUBTITLE_CRITERIA).val

EncBaseline ==
    BaselineCommand(input_path(enc_input.file), output_path(enc_input.file),
                    EncAudioSelection)

SubtitleTokens ==
    { Lit("--subtitle-burned=none"), Lit("--subtitle"), Lit("--subname"),
      Lit("--subtitle-default") }

\* C8: the command of encode_video holds the tokens --audio (followed by the
\* comma-joined indices) and --aname exactly when the audio selection is not
\* empty.
C8_AudioSegmentConditional ==
    fn_pc = "returned" =>
        /\ HasToken(extended_command, Lit("--audio")) <=> EncAudioSelection # <<>>
        /\ HasToken(extended_command, Lit("--aname")) <=> EncAudioSelection # <<>>
        /\ EncAudioSelection # <<>> =>
             ValueAfter(extended_command, Lit("--audio")) = EncAudioSelection

\* C9: the command starts with the baseline tokens.  When the subtitle
\* selection is empty the command is the baseline list and holds none of
\* --subtitle-burned, --subtitle, --subname, --subtitle-default; when it is
\* not, all four follow the baseline tokens, and --subtitle-default names the
\* track of the selection with the least priority value.
C9_SubtitleSegment ==
    fn_pc = "returned" =>
        LET sel == EncSubtitleSelection
            n == Len(EncBaseline)
        IN /\ Len(extended_command) >= n
           /\ SubSeq(extended_command, 1, n) = EncBaseline
           /\ sel = <<>> =>
                /\ extended_command = EncBaseline
                /\ \A tok \in SubtitleTokens : ~HasToken(extended_command, tok)
           /\ sel # <<>> =>
                /\ \A tok \in SubtitleTokens :
                     /\ \E i \in (n + 1)..Len(extended_command) :
                          extended_command[i] = tok
                     /\ \A i \in 1..n : extended_command[i] # tok
                /\ \E i \in 1..Len(sel) :
                     /\ \A j \in 1..Len(sel) : sel[i].priority <= sel[j].priority
                     /\ ValueAfter(extended_command, Lit("--subtitle-default"))
                          = ToStr(sel[i].track_nr)

\* A file with text tracks none of which a rule accepts: the command is the
\* baseline list.
C9_Witness ==
    /\ fn_pc = "returned" /\ enc_input.media.parse = "ok"
    /\ enc_input.media.text_tracks # <<>>
    /\ EncSubtitleSelection = <<>>
    /\ extended_command = EncBaseline

DisplayName(lang) ==
    CASE lang = "de" -> "Deutsch"
      [] lang = "en" -> "English"
      [] OTHER -> "?"

\* C10: in the command of encode_video, --aname gives as many comma-separated
\* names as --audio gives indices, and the k-th name is the display name of
\* the language of the k-th selected track.
C10_AudioNamesLineUp ==
    fn_pc = "returned" =>
        LET idx == IndexList(ValueAfter(extended_command, Lit("--audio")))
            names == SplitOn(ValueAfter(extended_command, Lit("--aname")),
                             ",", <<>>)
        IN /\ Len(names) = Len(idx)
           /\ \A k \in 1..Len(idx) :
                names[k] = Lit(DisplayName(enc_input.media.audio_tracks[idx[k]]))

\* ----------------------------------------------------------------------- C11
\* C11: at most one run_script thread is alive at any time, and every thread
\* that was running when stop_script was called terminates eventually.
C11_SingleWorker ==
    /\ [](Cardinality({w \in 1..MaxWorkers : Alive(w)}) <= 1)
    /\ \A w \in 1..MaxWorkers : (w \in stop_seen) ~> (workers[w] = "done")

====
